---- MODULE Spec2Model ----
(***************************************************************************)
(* git-handler: the host-wide file lock (Locker), the construction of a   *)
(* GitHandler (open / refresh / wipe / clone / checkout of the local      *)
(* mirror), the routes of main.py that run after the construction, and    *)
(* the tree materializer (get_tree / _get_tree).                          *)
(*                                                                         *)
(* Spec      the requests of several execution contexts, interleaved at   *)
(*           every access to the marker file or to the mirror directory.  *)
(* SpecSeq   the same steps, one request at a time (calls that do not     *)
(*           overlap).                                                     *)
(* SpecTree  get_tree applied to small repository trees and paths.        *)
(* SpecPath  GitHandler constructed for one locator after another.        *)
(*                                                                         *)
(* Time is counted in ticks of half a lease: the marker's expiry is       *)
(* now + LeaseTicks.  is_locked() is one step (isfile, load, compare,     *)
(* remove), lock() is one step, and so is each git or filesystem call of  *)
(* the constructor together with the handler of the error it raises.      *)
(***************************************************************************)
EXTENDS Integers, Sequences, FiniteSets, TLC

\* ---------------------------------------------------------------- bounds
NumCtx == 2
MaxTime == 3

\* handler.py:49  timedelta(hours=1), in ticks
LeaseTicks == 2

Ctx == 1..NumCtx

\* ------------------------------------------------------------ the remotes
\* A locator is its text split on "/" (handler.py:79).
RepoOK == <<"https:", "", "github.com", "org", "repo">>
RepoGone == <<"https:", "", "github.com", "org", "gone">>
Locators == {RepoOK, RepoGone}

\* The remote answers a clone only when the repository exists.
RemoteExists(l) == l[Len(l)] # "gone"
\* The branches of the existing remote, and the one its HEAD names.
RemoteBranches == {"main", "dev"}
RemoteHead == "main"
\* settings.DEFAULT_GIT_BRANCH and the other names a request may carry.
DEFAULT_GIT_BRANCH == "main"
RequestBranches == {DEFAULT_GIT_BRANCH, "dev", "nope"}

\* repo.split('/')[3:]
RepoPath(l) == SubSeq(l, 4, Len(l))
\* os.path.join(path or PATH, DIRECTORY, repo_path.pop(0)): the namespace
NamespaceOf(l) == Head(RepoPath(l))
\* os.path.join(self._parent, *repo_path): the mirror's directory
TargetDir(l) == <<"repositories">> \o RepoPath(l)
Dirs == {TargetDir(l) : l \in Locators}

\* ------------------------------------------------------------------ state
VARIABLES
    now,        \* datetime.datetime.now(), in ticks
    marker,     \* the file lock-<hostname>: its pickled expiry (and who wrote it)
    mirror,     \* per target_dir: "absent", "invalid" (a directory, no work tree), "valid"
    cur,        \* per target_dir: git branch --show-current
    nsDir,      \* whether <root>/repositories/<namespace> exists
    pc,         \* per context: where its request stands
    loc,        \* per context: git_path
    br,         \* per context: default_branch
    exc,        \* per context: the error its constructor raised
    isCloned,   \* per context: self.is_cloned
    pre,        \* per context: what git.Repo(target_dir) found, and whether the namespace existed
    res,        \* per context: what the is_locked() of its wait_for_unlock found last
    todo,       \* per context: the steps its route takes after the current one
    tree,       \* SpecTree: the repository tree of the branch
    path,       \* SpecTree: the path argument
    branch,     \* SpecTree: the branch argument
    out,        \* SpecTree: what get_tree returned
    blob,       \* SpecBlob: the bytes of the blob (blob.data_stream.read())
    record,     \* SpecBlob: file_dict
    applied,    \* SpecBlob: the content processors applied to file_dict so far
    call,       \* SpecFile: the call, get_file(filename) or files_contains(checks)
    ret,        \* SpecFile: what the call returned or raised
    disk,       \* SpecPath: per mirror directory, the locator it was cloned from
    made        \* SpecPath: the handler constructed last

reqVars == <<now, marker, mirror, cur, nsDir, pc, loc, br, exc,
             isCloned, pre, res, todo>>
treeVars == <<tree, path, branch, out>>
blobVars == <<blob, record, applied>>
fileVars == <<call, ret>>
pathVars == <<disk, made>>
pureVars == <<treeVars, blobVars, fileVars, pathVars>>
vars == <<now, marker, mirror, cur, nsDir, pc, loc, br, exc, isCloned, pre, res, todo,
          tree, path, branch, out, blob, record, applied, call, ret, disk, made>>

NoMarker == [expiry |-> 0 - 1, owner |-> 0]
\* A holder that crashed before the first request: not one of the contexts.
CrashedHolder == NumCtx + 1
NoExc == [kind |-> "none", cause |-> "none"]
NoPre == [dir |-> "none", ns |-> FALSE]
NoLoc == <<>>

\* ------------------------------------------------------------- the Locker
\* is_locked(): target_date < datetime.datetime.now()
NeverExpired(m, t) == FALSE
ExpiredAtOrBefore(m, t) == m.expiry <= t
Expired(m, t) == m.expiry < t

\* What is_locked() finds: no file, an expired marker, a live one.
IsLockedFinds(m, t) ==
    IF m = NoMarker THEN "absent"
    ELSE IF Expired(m, t) THEN "expired"
    ELSE "live"
\* is_locked()'s return value.
IsLocked(m, t) == IsLockedFinds(m, t) = "live"
\* The marker file after is_locked(): os.remove on an expired marker.
AfterIsLocked(m, t) == IF IsLockedFinds(m, t) = "expired" THEN NoMarker ELSE m

\* lock(): the pickled expiry.
LockMarker(c, t) == [expiry |-> t + LeaseTicks, owner |-> c]

\* Where an error raised inside "with Locker() as locker:" goes next: __exit__.
RaiseSkipsExit == "failed"
RaiseTarget == "exit"

\* The steps between Locker.__enter__ and Locker.__exit__.
RegionPcs == {"open", "update1", "clone", "branch", "update2"}
InRegion(c) == pc[c] \in RegionPcs

\* Locker.wait_for_unlock: one evaluation of the loop condition.
WaitForUnlock(c) ==
    /\ pc[c] = "wait"
    /\ res' = [res EXCEPT ![c] = IsLockedFinds(marker, now)]
    /\ marker' = AfterIsLocked(marker, now)
    /\ pc' = [pc EXCEPT ![c] = IF IsLocked(marker, now) THEN "sleep" ELSE "lock"]
    /\ UNCHANGED <<now, mirror, cur, nsDir, loc, br, exc, isCloned, pre, todo>>
    /\ UNCHANGED pureVars

\* time.sleep(0.5), then the loop condition again.
Sleep(c) ==
    /\ pc[c] = "sleep"
    /\ pc' = [pc EXCEPT ![c] = "wait"]
    /\ res' = [res EXCEPT ![c] = "none"]
    /\ UNCHANGED <<now, marker, mirror, cur, nsDir, loc, br, exc, isCloned, pre, todo>>
    /\ UNCHANGED pureVars

\* Locker.lock, the second half of __enter__.
Lock(c) ==
    /\ pc[c] = "lock"
    /\ marker' = LockMarker(c, now)
    /\ pc' = [pc EXCEPT ![c] = "open"]
    /\ res' = [res EXCEPT ![c] = "none"]
    /\ UNCHANGED <<now, mirror, cur, nsDir, loc, br, exc, isCloned, pre, todo>>
    /\ UNCHANGED pureVars

\* Where a request goes once __exit__ has returned.
AfterExit(c) == IF exc[c] = NoExc THEN "ready" ELSE "failed"

\* Locker.unlock, from __exit__: "if self.is_locked():".
Unlock(c) ==
    /\ pc[c] = "exit"
    /\ marker' = AfterIsLocked(marker, now)
    /\ pc' = [pc EXCEPT ![c] = IF IsLocked(marker, now) THEN "remove" ELSE AfterExit(c)]
    /\ UNCHANGED <<now, mirror, cur, nsDir, loc, br, exc, isCloned, pre, res, todo>>
    /\ UNCHANGED pureVars

\* Locker.unlock: os.remove(self.key), its error swallowed.
Remove(c) ==
    /\ pc[c] = "remove"
    /\ marker' = NoMarker
    /\ pc' = [pc EXCEPT ![c] = AfterExit(c)]
    /\ UNCHANGED <<now, mirror, cur, nsDir, loc, br, exc, isCloned, pre, res, todo>>
    /\ UNCHANGED pureVars

\* --------------------------------------------------- GitHandler.__init__
\* Whether a fetch, pull or clone reaches the remote: never when the repository
\* does not exist, and not always when it does (a transient failure).
NetOutcomes(l) == IF RemoteExists(l) THEN {TRUE, FALSE} ELSE {FALSE}
NetCause(l) == IF RemoteExists(l) THEN "network" ELSE "missing"

Raise(c, k, why) ==
    /\ exc' = [exc EXCEPT ![c] = [kind |-> k, cause |-> why]]
    /\ pc' = [pc EXCEPT ![c] = RaiseTarget]

\* A route of main.py is entered: get_git_handler builds GitHandler(git_path, path, branch).
StartRequest(c) ==
    /\ pc[c] = "idle"
    /\ \E l \in Locators, b \in RequestBranches :
          /\ loc' = [loc EXCEPT ![c] = l]
          /\ br' = [br EXCEPT ![c] = b]
    /\ pc' = [pc EXCEPT ![c] = "wait"]
    /\ UNCHANGED <<now, marker, mirror, cur, nsDir, exc, isCloned, pre, res, todo>>
    /\ UNCHANGED pureVars

\* git.Repo(self.target_dir) succeeds on a work tree only.
OpensNever(state) == FALSE
Opens(state) == state = "valid"

\* handler.py:89 and, when git.Repo raises, 92-94: wipe the directory and make it anew.
Open(c) ==
    LET d == TargetDir(loc[c]) IN
    /\ pc[c] = "open"
    /\ pre' = [pre EXCEPT ![c] = [dir |-> mirror[d], ns |-> nsDir]]
    /\ IF Opens(mirror[d])
       THEN /\ pc' = [pc EXCEPT ![c] = "update1"]
            /\ UNCHANGED <<mirror, nsDir>>
       ELSE /\ mirror' = [mirror EXCEPT ![d] = "invalid"]
            /\ nsDir' = TRUE
            /\ pc' = [pc EXCEPT ![c] = "clone"]
    /\ UNCHANGED <<now, marker, cur, loc, br, exc, isCloned, res, todo>>
    /\ UNCHANGED pureVars

\* handler.py:90, self.update(): its GitCommandError is not one the except clause names.
Update1(c) ==
    LET d == TargetDir(loc[c]) IN
    /\ pc[c] = "update1"
    /\ \E ok \in NetOutcomes(loc[c]) :
          IF mirror[d] # "valid"
          THEN Raise(c, "GitCommandError", "race")
          ELSE IF ok
          THEN pc' = [pc EXCEPT ![c] = "branch"] /\ UNCHANGED exc
          ELSE Raise(c, "GitCommandError", "network")
    /\ UNCHANGED <<now, marker, mirror, cur, nsDir, loc, br, isCloned, pre, res, todo>>
    /\ UNCHANGED pureVars

\* The mirror directory after the handler of a failed clone (handler.py:100).
KeepsDirectory(state) == state
RmTree(state) == "absent"

\* handler.py:96-102: clone_from, and the handler of its GitError.
Clone(c) ==
    LET d == TargetDir(loc[c]) IN
    /\ pc[c] = "clone"
    /\ \E ok \in NetOutcomes(loc[c]) :
          IF ok /\ mirror[d] # "valid"
          THEN /\ mirror' = [mirror EXCEPT ![d] = "valid"]
               /\ cur' = [cur EXCEPT ![d] = RemoteHead]
               /\ isCloned' = [isCloned EXCEPT ![c] = TRUE]
               /\ nsDir' = TRUE
               /\ pc' = [pc EXCEPT ![c] = "branch"]
               /\ UNCHANGED exc
          ELSE IF mirror[d] = "absent"
          THEN \* shutil.rmtree on a path that is gone: onerror raises
               /\ Raise(c, "OSError", "race")
               /\ UNCHANGED <<mirror, cur, isCloned, nsDir>>
          ELSE /\ mirror' = [mirror EXCEPT ![d] = RmTree(mirror[d])]
               /\ cur' = [cur EXCEPT ![d] = IF mirror'[d] = "absent" THEN "-" ELSE cur[d]]
               /\ Raise(c, "RepositoryUnavailable",
                        IF ok THEN "race" ELSE NetCause(loc[c]))
               /\ UNCHANGED <<isCloned, nsDir>>
    /\ UNCHANGED <<now, marker, loc, br, pre, res, todo>>
    /\ UNCHANGED pureVars

\* "if default_branch != self.current_branch"
NeedsCheckout(b, current) == b # current

\* handler.py:103-105: read the current branch, and check the requested one out.
Branch(c) ==
    LET d == TargetDir(loc[c]) IN
    /\ pc[c] = "branch"
    /\ IF mirror[d] # "valid"
       THEN /\ Raise(c, "GitCommandError", "race")
            /\ UNCHANGED <<cur>>
       ELSE /\ IF ~NeedsCheckout(br[c], cur[d])
               THEN /\ pc' = [pc EXCEPT ![c] = "exit"]
                    /\ UNCHANGED <<cur, exc>>
               ELSE IF br[c] \in RemoteBranches
               THEN /\ cur' = [cur EXCEPT ![d] = br[c]]
                    /\ pc' = [pc EXCEPT ![c] = "update2"]
                    /\ UNCHANGED exc
               ELSE /\ Raise(c, "BranchCheckoutFailed", "nobranch")
                    /\ UNCHANGED cur
    /\ UNCHANGED <<now, marker, mirror, nsDir, loc, br, isCloned, pre, res, todo>>
    /\ UNCHANGED pureVars

\* handler.py:106-109: self.update() after the checkout, its GitCommandError
\* reported as the checkout's.
Update2(c) ==
    LET d == TargetDir(loc[c]) IN
    /\ pc[c] = "update2"
    /\ \E ok \in NetOutcomes(loc[c]) :
          IF mirror[d] # "valid"
          THEN Raise(c, "BranchCheckoutFailed", "race")
          ELSE IF ok
          THEN pc' = [pc EXCEPT ![c] = "exit"] /\ UNCHANGED exc
          ELSE Raise(c, "BranchCheckoutFailed", "network")
    /\ UNCHANGED <<now, marker, mirror, cur, nsDir, loc, br, isCloned, pre, res, todo>>
    /\ UNCHANGED pureVars

\* ------------------------------------------------------ the routes (main.py)
Kinds == {"update", "branches", "tree", "file", "contains"}

Reset(c) ==
    /\ pc' = [pc EXCEPT ![c] = "idle"]
    /\ loc' = [loc EXCEPT ![c] = NoLoc]
    /\ br' = [br EXCEPT ![c] = "-"]
    /\ exc' = [exc EXCEPT ![c] = NoExc]
    /\ isCloned' = [isCloned EXCEPT ![c] = FALSE]
    /\ pre' = [pre EXCEPT ![c] = NoPre]
    /\ res' = [res EXCEPT ![c] = "none"]
    /\ todo' = [todo EXCEPT ![c] = <<>>]

\* The constructor raised: the route answers with the error.
Fail(c) ==
    /\ pc[c] = "failed"
    /\ Reset(c)
    /\ UNCHANGED <<now, marker, mirror, cur, nsDir>>
    /\ UNCHANGED pureVars

\* get_git_handler (main.py:90-93): res.update() when force_update is set;
\* update_repo calls it without the flag (main.py:106).
ForcePlan(k, force) == IF k # "update" /\ force THEN <<"force">> ELSE <<>>

\* What the route does with the handler: update_repo refreshes unless the
\* mirror was just cloned (main.py:107-111, is_update_required() is True),
\* files_contains refreshes and then reads (handler.py:176-181), the others read.
RoutePlan(k, cloned) ==
    IF k = "update" THEN (IF cloned THEN <<>> ELSE <<"refresh">>)
    ELSE IF k = "contains" THEN <<"refresh", "read">>
    ELSE <<"read">>

Plan(k, force, cloned) == ForcePlan(k, force) \o RoutePlan(k, cloned)

\* The next step of a plan, or the end of the request.
Continue(c, plan) ==
    IF plan = <<>>
    THEN Reset(c)
    ELSE /\ pc' = [pc EXCEPT ![c] = Head(plan)]
         /\ todo' = [todo EXCEPT ![c] = Tail(plan)]
         /\ pre' = [pre EXCEPT ![c] = NoPre]
              /\ res' = [res EXCEPT ![c] = "none"]
         /\ isCloned' = [isCloned EXCEPT ![c] = FALSE]
         /\ UNCHANGED <<loc, br, exc>>

\* The constructor returned: the route and its force_update flag decide what follows.
Route(c) ==
    /\ pc[c] = "ready"
    /\ \E k \in Kinds, force \in BOOLEAN : Continue(c, Plan(k, force, isCloned[c]))
    /\ UNCHANGED <<now, marker, mirror, cur, nsDir>>
    /\ UNCHANGED pureVars

\* main.py:91-92: res.update(), after the constructor has released the lock.
Force(c) ==
    /\ pc[c] = "force"
    /\ Continue(c, todo[c])
    /\ UNCHANGED <<now, marker, mirror, cur, nsDir>>
    /\ UNCHANGED pureVars

\* main.py:110 gh.update(), handler.py:176 self.update() of files_contains.
Refresh(c) ==
    /\ pc[c] = "refresh"
    /\ Continue(c, todo[c])
    /\ UNCHANGED <<now, marker, mirror, cur, nsDir>>
    /\ UNCHANGED pureVars

\* get_branches_names, get_tree, get_file and the checks of files_contains read the mirror.
Read(c) ==
    /\ pc[c] = "read"
    /\ Continue(c, todo[c])
    /\ UNCHANGED <<now, marker, mirror, cur, nsDir>>
    /\ UNCHANGED pureVars

\* The steps that write the mirror: fetch and pull, clone, checkout, wipe.
WriterPcs == {"open", "update1", "clone", "branch", "update2", "force", "refresh"}

\* ------------------------------------------------------------------ time
Tick ==
    /\ now < MaxTime
    /\ now' = now + 1
    /\ UNCHANGED <<marker, mirror, cur, nsDir, pc, loc, br, exc, isCloned, pre, res, todo>>
    /\ UNCHANGED pureVars

\* ------------------------------------------------------- the specifications
NoTree == [name |-> "", blobs |-> <<>>, trees |-> <<>>]

\* A fresh root, or one where the mirror's directory was left without a work
\* tree; no marker, or the marker of a holder that crashed.
InitReq ==
    /\ now = 0
    /\ marker \in {NoMarker, [expiry |-> 1, owner |-> CrashedHolder]}
    /\ \E broken \in BOOLEAN :
          /\ mirror = [d \in Dirs |-> IF broken /\ d = TargetDir(RepoOK)
                                      THEN "invalid" ELSE "absent"]
          /\ nsDir = broken
    /\ cur = [d \in Dirs |-> "-"]
    /\ pc = [c \in Ctx |-> "idle"]
    /\ loc = [c \in Ctx |-> NoLoc]
    /\ br = [c \in Ctx |-> "-"]
    /\ exc = [c \in Ctx |-> NoExc]
    /\ isCloned = [c \in Ctx |-> FALSE]
    /\ pre = [c \in Ctx |-> NoPre]
    /\ res = [c \in Ctx |-> "none"]
    /\ todo = [c \in Ctx |-> <<>>]

\* No call of get_tree, of a content processor, of get_file or files_contains.
IdleTree ==
    /\ tree = NoTree
    /\ path = [form |-> "none", segs |-> <<>>]
    /\ branch = ""
    /\ out = [called |-> FALSE, err |-> "none", traversed |-> FALSE,
              result |-> [kind |-> "none", items |-> <<>>]]
IdleBlob ==
    /\ blob = <<>>
    /\ record = [filename |-> "-", content |-> [kind |-> "none", v |-> <<>>]]
    /\ applied = <<>>
IdleFile ==
    /\ call = [op |-> "none"]
    /\ ret = [done |-> FALSE]
IdlePath ==
    /\ disk = <<>>
    /\ made = [url |-> <<>>]

Init ==
    /\ InitReq
    /\ IdleTree
    /\ IdleBlob
    /\ IdleFile
    /\ IdlePath

Step(c) ==
    \/ StartRequest(c)
    \/ WaitForUnlock(c)
    \/ Sleep(c)
    \/ Lock(c)
    \/ Open(c)
    \/ Update1(c)
    \/ Clone(c)
    \/ Branch(c)
    \/ Update2(c)
    \/ Unlock(c)
    \/ Remove(c)
    \/ Fail(c)
    \/ Route(c)
    \/ Force(c)
    \/ Refresh(c)
    \/ Read(c)

Next == Tick \/ \E c \in Ctx : Step(c)

Spec == Init /\ [][Next]_vars

\* One request at a time: a context steps only while every other one is idle.
Solo(c) == \A d \in Ctx \ {c} : pc[d] = "idle"

NextSeq == Tick \/ \E c \in Ctx : Solo(c) /\ Step(c)

SpecSeq == Init /\ [][NextSeq]_vars

\* One request at a time, with the clock running and the polling loop of
\* wait_for_unlock (is_locked, sleep 0.5 s) taking its turns.
Polling(c) == Solo(c) /\ (WaitForUnlock(c) \/ Sleep(c))
SpecLive ==
    /\ Init
    /\ [][NextSeq]_vars
    /\ WF_vars(Tick)
    /\ \A c \in Ctx : WF_vars(Polling(c))

\* ------------------------------------------------ get_tree and _get_tree
\* A git tree: its name, the names of its blobs, its sub-trees.
Leaf(n, files) == [name |-> n, blobs |-> files, trees |-> <<>>]
Node(n, files, subs) == [name |-> n, blobs |-> files, trees |-> subs]

\* The repository trees get_tree is applied to; the root tree's name is "".
TreePlain ==
    Node("", <<"main.py", "README">>,
         << Node("src", <<"a.py">>, << Leaf("lib", <<"b.py">>) >>),
            Leaf("docs", <<"d.md">>) >>)
TreeNoRootFiles == Node("", <<>>, << Leaf("src", <<"a.py">>) >>)
TreeFilesDir == Node("", <<"main.py">>, << Leaf("files", <<"x.txt">>) >>)
TreeFilesDeep ==
    Node("", <<"main.py">>, << Node("files", <<>>, << Leaf("deep", <<"y.txt">>) >>) >>)
TreeOnlyFiles == Leaf("", <<"main.py">>)
Trees == {TreePlain, TreeNoRootFiles, TreeFilesDir, TreeFilesDeep, TreeOnlyFiles}

\* str.lower() on the names in use.
Lower(n) == CASE n = "SRC" -> "src" [] n = "Docs" -> "docs" [] OTHER -> n

\* A Python value of the result: a dict (keys to values), a list (of file
\* records), or the TypeError an item assignment on a list raises.
Dict(f) == [kind |-> "dict", items |-> f]
List(q) == [kind |-> "list", items |-> q]
EmptyDict == Dict(<<>>)
TypeError == [kind |-> "TypeError", items |-> <<>>]
Keys(v) == DOMAIN v.items
Put(v, k, x) == Dict((k :> x) @@ v.items)

\* handler.py:229-235 without content processors: {'files': [{'filename': b.name}, ...]}
FilesDict(blobs) ==
    Dict("files" :> List([i \in 1..Len(blobs) |-> [filename |-> blobs[i]]]))

\* handler.py:221-224: the node is pruned.
NeverPruned(t, p, idx) == FALSE
Pruned(t, p, idx) == idx < Len(p) /\ Lower(t.name) # Lower(p[idx + 1])

RECURSIVE GetTreeRec(_, _, _, _)
RECURSIVE GetTreeAll(_, _, _, _, _)

\* GitHandler._get_tree(res, tree, path, idx): res (here r) after the call.
GetTreeRec(r, t, p, idx) ==
    IF r.kind = "TypeError" THEN r
    ELSE IF Pruned(t, p, idx) THEN r
    ELSE IF r.kind = "list" THEN TypeError
    ELSE LET r1 == IF t.name \in Keys(r) THEN r ELSE Put(r, t.name, EmptyDict)
             r2 == IF t.blobs # <<>> THEN Put(r1, t.name, FilesDict(t.blobs)) ELSE r1
         IN  IF t.trees = <<>> THEN r2
             ELSE LET inner == GetTreeAll(r2.items[t.name], t.trees, p, idx + 1, 1)
                  IN  IF inner.kind = "TypeError" THEN TypeError
                      ELSE Put(r2, t.name, inner)

\* handler.py:236-240: "for t in tree.trees", from the i-th on.
GetTreeAll(r, subs, p, idx, i) ==
    IF i > Len(subs) THEN r
    ELSE GetTreeAll(GetTreeRec(r, subs[i], p, idx), subs, p, idx, i + 1)

\* --- the arguments of get_tree
MaxPathLen == 2
PathNames == {"", "src", "SRC", "lib", "files", "zz"}
PathTokens == (PathNames \ {""}) \cup {"/"}
SeqsUpTo(S, n) == UNION {[1..k -> S] : k \in 0..n}

\* A str is a sequence of tokens, "/" or a name; two names are never adjacent.
IsStr(s) == \A i \in 1..(Len(s) - 1) : s[i] = "/" \/ s[i + 1] = "/"
PathNone == [form |-> "none", segs |-> <<>>]
PathArgs ==
    {PathNone}
    \cup {[form |-> "str", segs |-> s] : s \in {x \in SeqsUpTo(PathTokens, MaxPathLen + 1) : IsStr(x)}}
    \cup {[form |-> "list", segs |-> s] : s \in SeqsUpTo(PathNames, MaxPathLen)}
BranchArgs == RequestBranches \cup {""}

\* str.split('/')
RECURSIVE Split(_)
Split(s) ==
    IF \A i \in 1..Len(s) : s[i] # "/"
    THEN <<IF s = <<>> THEN "" ELSE s[1]>>
    ELSE LET i == CHOOSE j \in 1..Len(s) : s[j] = "/" /\ \A k \in 1..(j - 1) : s[k] # "/"
         IN  <<IF i = 1 THEN "" ELSE s[1]>> \o Split(SubSeq(s, i + 1, Len(s)))

\* handler.py:161-164
AsList(pa) ==
    IF pa.form = "none" THEN <<"">>
    ELSE IF pa.form = "str" THEN Split(pa.segs)
    ELSE pa.segs
\* handler.py:165: path[0] of an empty list raises IndexError.
NoFirst(pa) == AsList(pa) = <<>>
\* handler.py:165-166, when path[0] exists.
Normalise(pa) ==
    LET l == AsList(pa)
    IN  IF NoFirst(pa) \/ l[1] = "" THEN l ELSE <<"">> \o l

\* branch or self.default_branch; remote().refs[branch]
BranchOr(b, d) == IF b = "" THEN d ELSE b
RefAlwaysKnown(b) == TRUE
RefKnown(b) == b \in RemoteBranches

NoResult == [kind |-> "none", items |-> <<>>]
NotCalled == [called |-> FALSE, err |-> "none", traversed |-> FALSE, result |-> NoResult]
Raised(e, entered) == [called |-> TRUE, err |-> e, traversed |-> entered, result |-> NoResult]

\* GitHandler.get_tree(branch, path) of a handler whose default_branch is d.
GetTree(b, pa, t, d) ==
    IF NoFirst(pa) THEN Raised("IndexError", FALSE)
    ELSE IF ~RefKnown(BranchOr(b, d)) THEN Raised("IndexError", FALSE)
    ELSE LET r == GetTreeRec(EmptyDict, t, Normalise(pa), 0)
         IN  IF r.kind = "TypeError" THEN Raised("TypeError", TRUE)
             ELSE [called |-> TRUE, err |-> "none", traversed |-> TRUE, result |-> r]

\* main.py:139-145 and the middleware of main.py:58-66.
TreeResponse(o) ==
    IF o.err = "IndexError" THEN [status |-> "400", detail |-> "Branch does not exist"]
    ELSE IF o.err = "none" THEN [status |-> "200", detail |-> "tree"]
    ELSE [status |-> "500", detail |-> o.err]

\* A handler constructed on the default branch of a cloned mirror.
InitHandler ==
    /\ now = 0
    /\ marker = NoMarker
    /\ mirror = [d \in Dirs |-> IF d = TargetDir(RepoOK) THEN "valid" ELSE "absent"]
    /\ nsDir = TRUE
    /\ cur = [d \in Dirs |-> IF d = TargetDir(RepoOK) THEN DEFAULT_GIT_BRANCH ELSE "-"]
    /\ pc = [c \in Ctx |-> "idle"]
    /\ loc = [c \in Ctx |-> NoLoc]
    /\ br = [c \in Ctx |-> "-"]
    /\ exc = [c \in Ctx |-> NoExc]
    /\ isCloned = [c \in Ctx |-> FALSE]
    /\ pre = [c \in Ctx |-> NoPre]
    /\ res = [c \in Ctx |-> "none"]
    /\ todo = [c \in Ctx |-> <<>>]

InitTree ==
    /\ InitHandler
    /\ tree \in Trees
    /\ path \in PathArgs
    /\ branch \in BranchArgs
    /\ out = NotCalled
    /\ IdleBlob
    /\ IdleFile
    /\ IdlePath

GetTreeCall ==
    /\ ~out.called
    /\ out' = GetTree(branch, path, tree, DEFAULT_GIT_BRANCH)
    /\ UNCHANGED <<tree, path, branch>>
    /\ UNCHANGED <<reqVars, blobVars, fileVars, pathVars>>

NextTree == GetTreeCall

SpecTree == InitTree /\ [][NextTree]_vars

\* ------------------------------------------------ the content processors
\* Bytes are 0..255, a str is the sequence of its code points.  The blobs are
\* the byte strings over "A", "\n", the two bytes of U+00E9 and 0xFF.
MaxBlobLen == 2
MaxApplied == 2
BlobBytes == {65, 10, 195, 169, 255}
Blobs == SeqsUpTo(BlobBytes, MaxBlobLen)
BlobNames == {"main.py", "logo.png"}

\* bytes.decode('utf-8') succeeds: one-byte and two-byte forms.
RECURSIVE Utf8Valid(_)
Utf8Valid(bs) ==
    IF bs = <<>> THEN TRUE
    ELSE IF bs[1] < 128 THEN Utf8Valid(Tail(bs))
    ELSE IF bs[1] >= 194 /\ bs[1] <= 223 /\ Len(bs) >= 2 /\ bs[2] >= 128 /\ bs[2] <= 191
    THEN Utf8Valid(SubSeq(bs, 3, Len(bs)))
    ELSE FALSE

\* bytes.decode('utf-8') of valid bytes.
RECURSIVE Utf8Decode(_)
Utf8Decode(bs) ==
    IF bs = <<>> THEN <<>>
    ELSE IF bs[1] < 128 THEN <<bs[1]>> \o Utf8Decode(Tail(bs))
    ELSE <<(bs[1] - 192) * 64 + (bs[2] - 128)>> \o Utf8Decode(SubSeq(bs, 3, Len(bs)))

\* str.encode('utf-8'), code points below U+0800.
RECURSIVE Utf8Encode(_)
Utf8Encode(t) ==
    IF t = <<>> THEN <<>>
    ELSE IF t[1] < 128 THEN <<t[1]>> \o Utf8Encode(Tail(t))
    ELSE <<192 + (t[1] \div 64), 128 + (t[1] % 64)>> \o Utf8Encode(Tail(t))

\* str(content) of a bytes object: b'...' with its escapes.
HexDigit(d) == IF d < 10 THEN 48 + d ELSE 87 + d
EscapeByte(b) ==
    IF b = 10 THEN <<92, 110>>
    ELSE IF b = 92 \/ b = 39 THEN <<92, b>>
    ELSE IF b >= 32 /\ b <= 126 THEN <<b>>
    ELSE <<92, 120, HexDigit(b \div 16), HexDigit(b % 16)>>
RECURSIVE EscapeBytes(_)
EscapeBytes(bs) == IF bs = <<>> THEN <<>> ELSE EscapeByte(bs[1]) \o EscapeBytes(Tail(bs))
StrOfBytes(bs) == <<98, 39>> \o EscapeBytes(bs) \o <<39>>

\* base64.b64encode
B64Char(n) ==
    IF n < 26 THEN 65 + n
    ELSE IF n < 52 THEN 97 + (n - 26)
    ELSE IF n < 62 THEN 48 + (n - 52)
    ELSE IF n = 62 THEN 43 ELSE 47
RECURSIVE b64encode(_)
b64encode(bs) ==
    IF bs = <<>> THEN <<>>
    ELSE IF Len(bs) = 1
    THEN <<B64Char(bs[1] \div 4), B64Char((bs[1] % 4) * 16), 61, 61>>
    ELSE IF Len(bs) = 2
    THEN <<B64Char(bs[1] \div 4), B64Char((bs[1] % 4) * 16 + (bs[2] \div 16)),
           B64Char((bs[2] % 16) * 4), 61>>
    ELSE <<B64Char(bs[1] \div 4), B64Char((bs[1] % 4) * 16 + (bs[2] \div 16)),
           B64Char((bs[2] % 16) * 4 + (bs[3] \div 64)), B64Char(bs[3] % 64)>>
         \o b64encode(SubSeq(bs, 4, Len(bs)))

\* The values of file_dict['content'].
NoContent == [kind |-> "none", v |-> <<>>]
Str(t) == [kind |-> "str", v |-> t]
Bytes(bs) == [kind |-> "bytes", v |-> bs]
FileDict(n) == [filename |-> n, content |-> NoContent, err |-> "none"]

\* handler.py:205-209: decode, or str(content) on UnicodeDecodeError.
Decoded(bs) == IF Utf8Valid(bs) THEN Utf8Decode(bs) ELSE StrOfBytes(bs)

\* GitHandler.cp_add_blob_content(node, file_dict, blob): file_dict afterwards.
AddsOntoContent(fd, bs) == [fd EXCEPT !.content = Str(fd.content.v \o Decoded(bs))]
cp_add_blob_content(fd, bs) == [fd EXCEPT !.content = Str(Decoded(bs))]

\* "if not content": no content field, or an empty str or bytes.
NotContentNever(fd) == FALSE
NotContent(fd) == fd.content.kind = "none" \/ fd.content.v = <<>>

\* GitHandler.cp_encode_blob_base64(node, file_dict, blob): file_dict
\* afterwards; bytes has no encode(), so a bytes content raises.
cp_encode_blob_base64(fd, bs) ==
    LET fd1 == IF NotContent(fd) THEN cp_add_blob_content(fd, bs) ELSE fd
    IN  IF fd1.content.kind # "str"
        THEN [fd1 EXCEPT !.err = "AttributeError"]
        ELSE [fd1 EXCEPT !.content = Bytes(b64encode(Utf8Encode(fd1.content.v)))]

\* _get_tree hands file_dict = {'filename': b.name} to the processors in turn
\* (handler.py:230-234).
InitBlob ==
    /\ InitHandler
    /\ IdleTree
    /\ IdleFile
    /\ IdlePath
    /\ blob \in Blobs
    /\ \E n \in BlobNames : record = FileDict(n)
    /\ applied = <<>>

Apply(name, fd) ==
    /\ Len(applied) < MaxApplied
    /\ record.err = "none"
    /\ record' = fd
    /\ applied' = Append(applied, name)
    /\ UNCHANGED blob
    /\ UNCHANGED <<reqVars, treeVars, fileVars, pathVars>>

AddBlobContent == Apply("cp_add_blob_content", cp_add_blob_content(record, blob))
EncodeBlobBase64 == Apply("cp_encode_blob_base64", cp_encode_blob_base64(record, blob))

NextBlob == AddBlobContent \/ EncodeBlobBase64

SpecBlob == InitBlob /\ [][NextBlob]_vars

\* ------------------------------------------- get_file and files_contains
\* A path is the sequence of its segments below "/"; a text is the sequence
\* of its characters.  GitHandler.PATH is "/tmp/".
MirrorRoot == <<"tmp">> \o TargetDir(RepoOK)
FileContents ==
    (MirrorRoot \o <<"main.py">>) :> <<"a", " ", "b">>
    @@ (MirrorRoot \o <<"docs", "notes.txt">>) :> <<"b", "\n", "c">>
    @@ <<"etc", "passwd">> :> <<"r", "o", "o", "t">>
Directories == {MirrorRoot, MirrorRoot \o <<"docs">>, <<"etc">>, <<"tmp">>, <<>>}

\* The filename argument: absolute or not, and its segments.
Rel(segs) == [abs |-> FALSE, segs |-> segs]
Abs(segs) == [abs |-> TRUE, segs |-> segs]
FileNames ==
    {Rel(<<"main.py">>), Rel(<<"docs", "notes.txt">>), Rel(<<"docs">>),
     Rel(<<"tests", "NOT_EXIST.cfg">>), Rel(<<"docs", "..", "main.py">>),
     Abs(<<"etc", "passwd">>), Rel(<<"..", "..", "..", "..", "etc", "passwd">>),
     Rel(<<"..", "..", "..", "..", "etc", "shadow">>)}

\* os.path.join(self.target_dir, filename): an absolute filename replaces the directory.
OsPathJoin(dir, fn) == IF fn.abs THEN fn.segs ELSE dir \o fn.segs

\* The file the system calls name by a path: ".." steps up.
RECURSIVE Walk(_, _)
Walk(done, rest) ==
    IF rest = <<>> THEN done
    ELSE IF Head(rest) = ".."
    THEN Walk(IF done = <<>> THEN done ELSE SubSeq(done, 1, Len(done) - 1), Tail(rest))
    ELSE Walk(Append(done, Head(rest)), Tail(rest))
Resolve(p) == Walk(<<>>, p)

\* os.path.isfile
Exists(p) == Resolve(p) \in DOMAIN FileContents \/ Resolve(p) \in Directories
IsFile(p) == Resolve(p) \in DOMAIN FileContents

\* open(...).read(), which raises on a directory.
ReadFile(p) ==
    IF Resolve(p) \in DOMAIN FileContents
    THEN [err |-> "none", content |-> FileContents[Resolve(p)]]
    ELSE [err |-> "IsADirectoryError", content |-> <<>>]

\* GitHandler.get_file(filename) of the handler of RepoOK.
get_file(fn) ==
    LET full_path == OsPathJoin(MirrorRoot, fn)
    IN  IF ~IsFile(full_path)
        THEN [err |-> "FileNotFound", content |-> <<>>, filename |-> fn, url |-> RepoOK]
        ELSE [err |-> ReadFile(full_path).err, content |-> ReadFile(full_path).content,
              filename |-> fn, url |-> RepoOK]

\* str.strip()
IsSpace(ch) == ch \in {" ", "\n"}
RECURSIVE LStrip(_)
LStrip(t) == IF t # <<>> /\ IsSpace(Head(t)) THEN LStrip(Tail(t)) ELSE t
RECURSIVE RStrip(_)
RStrip(t) ==
    IF t # <<>> /\ IsSpace(t[Len(t)]) THEN RStrip(SubSeq(t, 1, Len(t) - 1)) ELSE t
Strip(t) == RStrip(LStrip(t))

\* content.split('\n')
RECURSIVE SplitLines(_)
SplitLines(t) ==
    IF \A i \in 1..Len(t) : t[i] # "\n" THEN <<t>>
    ELSE LET i == CHOOSE j \in 1..Len(t) : t[j] = "\n" /\ \A k \in 1..(j - 1) : t[k] # "\n"
         IN  <<SubSeq(t, 1, i - 1)>> \o SplitLines(SubSeq(t, i + 1, Len(t)))

\* "x in y" on str
Contains(y, x) == \E i \in 0..(Len(y) - Len(x)) : SubSeq(y, i + 1, i + Len(x)) = x

\* The checks files_contains is given.
MaxChecks == 2
PhraseContents ==
    {<<"b", " ", "\n", "a">>, <<"a", "\n", "c">>, <<"c", "\n", "a">>, <<" ">>}
Phrases == {[content |-> t] : t \in PhraseContents}
PhraseLists == {<<>>} \cup {<<p>> : p \in Phrases} \cup {<<p, q>> : p \in Phrases, q \in Phrases}
CheckNames == {Rel(<<"main.py">>), Rel(<<"tests", "NOT_EXIST.cfg">>)}
FileChecks == {[filename |-> n, phrases |-> ps] : n \in CheckNames, ps \in PhraseLists}
CheckLists == SeqsUpTo(FileChecks, MaxChecks)

\* handler.py:185-186: the first line of lines, from the k-th on, that is not
\* in file_content (0: none), and the number of lines tested.
LastMissingLine(lines, file_content, k) ==
    LET bad == {n \in k..Len(lines) : ~Contains(file_content, Strip(lines[n]))}
    IN  [k |-> IF bad = {} THEN 0 ELSE CHOOSE n \in bad : \A m \in bad : m <= n,
         tests |-> Len(lines)]
RECURSIVE MissingLine(_, _, _)
MissingLine(lines, file_content, k) ==
    IF k > Len(lines) THEN [k |-> 0, tests |-> Len(lines)]
    ELSE IF ~Contains(file_content, Strip(lines[k])) THEN [k |-> k, tests |-> k]
    ELSE MissingLine(lines, file_content, k + 1)

\* handler.py:182-191: the phrases of one check, from the j-th on.
RECURSIVE CheckPhrases(_, _, _, _)
CheckPhrases(phrases, file_content, j, tests) ==
    IF j > Len(phrases) THEN [j |-> 0, k |-> 0, tests |-> tests]
    ELSE LET m == MissingLine(SplitLines(Strip(phrases[j].content)), file_content, 1)
         IN  IF m.k # 0 THEN [j |-> j, k |-> m.k, tests |-> tests + m.tests]
             ELSE CheckPhrases(phrases, file_content, j + 1, tests + m.tests)

\* handler.py:177-191: the checks from the i-th on.
RECURSIVE CheckFiles(_, _, _)
CheckFiles(checks, i, tests) ==
    IF i > Len(checks)
    THEN [err |-> "none", at |-> <<0, 0, 0>>, tests |-> tests, reads |-> Len(checks)]
    ELSE LET f == get_file(checks[i].filename)
         IN  IF f.err # "none"
             THEN [err |-> f.err, at |-> <<i, 0, 0>>, tests |-> tests, reads |-> i]
             ELSE LET m == CheckPhrases(checks[i].phrases, f.content, 1, tests)
                  IN  IF m.j # 0
                      THEN [err |-> "ContentMismatch", at |-> <<i, m.j, m.k>>,
                            tests |-> m.tests, reads |-> i]
                      ELSE CheckFiles(checks, i + 1, m.tests)

\* GitHandler.files_contains(checks): self.update() first, whose
\* GitCommandError nothing catches.
files_contains(checks, fetched) ==
    IF ~fetched
    THEN [err |-> "GitCommandError", at |-> <<0, 0, 0>>, tests |-> 0, reads |-> 0]
    ELSE CheckFiles(checks, 1, 0)

NotDone == [done |-> FALSE]
Done(r) == [done |-> TRUE, r |-> r]

InitFile ==
    /\ InitHandler
    /\ IdleTree
    /\ IdleBlob
    /\ IdlePath
    /\ call \in {[op |-> "get_file", filename |-> n] : n \in FileNames}
                 \cup {[op |-> "files_contains", checks |-> cs] : cs \in CheckLists}
    /\ ret = NotDone

GetFileCall ==
    /\ ~ret.done
    /\ call.op = "get_file"
    /\ ret' = Done(get_file(call.filename))
    /\ UNCHANGED call
    /\ UNCHANGED <<reqVars, treeVars, blobVars, pathVars>>

FilesContainsCall ==
    /\ ~ret.done
    /\ call.op = "files_contains"
    /\ \E fetched \in NetOutcomes(RepoOK) : ret' = Done(files_contains(call.checks, fetched))
    /\ UNCHANGED call
    /\ UNCHANGED <<reqVars, treeVars, blobVars, pathVars>>

NextFile == GetFileCall \/ FilesContainsCall

SpecFile == InitFile /\ [][NextFile]_vars

\* ------------------------------------- the mirror directory of a locator
\* The locators a client may name: the routes pass git_path on as it comes
\* (main.py:85-93), and check_git_login accepts every one (handler.py:243-244).
Hosts == {"github.com", "gitlab.com"}
Namespaces == {"org", "team"}
RepoNames == {<<"repo">>, <<"group", "repo">>, <<"gone">>}
PathLocators ==
    {<<"https:", "", h, n>> \o p : h \in Hosts, n \in Namespaces, p \in RepoNames}
PathDirs == {TargetDir(l) : l \in PathLocators}

\* What a mirror directory remembers of its clone: the remote it came from.
NoOrigin == <<>>
NoHandler == [url |-> <<>>]
Handler(l, cloned, origin) ==
    [url |-> l, target_dir |-> TargetDir(l), is_cloned |-> cloned,
     origin |-> origin, err |-> "none"]
NoRepository(l) ==
    [url |-> l, target_dir |-> TargetDir(l), is_cloned |-> FALSE,
     origin |-> NoOrigin, err |-> "HTTP400"]

\* GitHandler(l) on its own, from the split of the locator to the return of
\* the constructor.  A directory that holds a work tree is opened and
\* refreshed from its own remote, whatever the locator says (git.Repo,
\* update); otherwise the locator is cloned into it, and a failed clone
\* leaves no directory.  The default branch is the remote's head here.
Construct(l) ==
    LET d == TargetDir(l) IN
    /\ IF disk[d] # NoOrigin
       THEN /\ made' = Handler(l, FALSE, disk[d])
            /\ UNCHANGED disk
       ELSE IF RemoteExists(l)
            THEN /\ disk' = [disk EXCEPT ![d] = l]
                 /\ made' = Handler(l, TRUE, l)
            ELSE /\ made' = NoRepository(l)
                 /\ UNCHANGED disk
    /\ UNCHANGED <<reqVars, treeVars, blobVars, fileVars>>

InitPath ==
    /\ InitReq
    /\ marker = NoMarker
    /\ nsDir = FALSE
    /\ IdleTree
    /\ IdleBlob
    /\ IdleFile
    /\ disk = [d \in PathDirs |-> NoOrigin]
    /\ made = NoHandler

NextPath == \E l \in PathLocators : Construct(l)

SpecPath == InitPath /\ [][NextPath]_vars

\* ================================================================ claims
Dir(c) == TargetDir(loc[c])
\* A context holds the lock from lock() until unlock() has removed the marker.
HoldPcs == RegionPcs \cup {"exit", "remove"}
Ended(c) == pc[c] \in {"ready", "failed"}

\* C1: the guarded regions of concurrent constructions never overlap: at most
\* one context is between Locker.__enter__ and Locker.__exit__.
C1_RegionsNeverOverlap == Cardinality({c \in Ctx : InRegion(c)}) <= 1

\* C2: a context that fetches, pulls, clones, wipes or checks out is inside
\* the region guarded by the Locker.
C2_WritersInsideRegion == \A c \in Ctx : pc[c] \in WriterPcs => InRegion(c)

\* C3: once the construction has ended, by return or by any error, the marker
\* this context wrote is gone: a marker that exists is another acquirer's, and
\* a context outside lock()..unlock() never owns the marker.
C3_ReleasedOnEveryExit ==
    \A c \in Ctx :
        /\ marker.owner = c => pc[c] \in HoldPcs
        /\ Ended(c) => (marker = NoMarker \/ marker.owner \in Ctx \ {c})

C3_Witness ==
    \E c \in Ctx :
        /\ pc[c] = "failed"
        /\ exc[c].kind = "BranchCheckoutFailed"
        /\ marker = NoMarker

\* C4: every evaluation of is_locked() (in wait_for_unlock and in unlock)
\* returns false on no marker, deletes an expired marker (expiry < now) and
\* returns false, and returns true on a live one and leaves it as it is.
C4_IsLockedCases ==
    [][\A c \in Ctx :
          (pc[c] \in {"wait", "exit"} /\ pc'[c] # pc[c]) =>
              IF marker = NoMarker
              THEN marker' = NoMarker /\ pc'[c] \in {"lock", "ready", "failed"}
              ELSE IF marker.expiry < now
              THEN marker' = NoMarker /\ pc'[c] \in {"lock", "ready", "failed"}
              ELSE marker' = marker /\ pc'[c] \in {"sleep", "remove"}]_vars

C4_Witness ==
    \E c \in Ctx : pc[c] = "lock" /\ res[c] = "expired" /\ marker = NoMarker

\* The remote was reached by every network call of the construction so far.
Reached(c) == exc[c].cause \notin {"network", "missing"}

\* C5: constructions that follow one another on a locator whose remote is
\* reached: the one that finds no work tree clones it (is_cloned, the mirror
\* valid afterwards), one that finds a work tree neither clones nor sets
\* is_cloned, no construction touches another locator's directory, and while
\* the requested branch is the checked-out one the checked-out branch stays.
C5_State ==
    \A c \in Ctx :
        /\ (pre[c].dir = "valid") => (~isCloned[c] /\ pc[c] # "clone")
        /\ (Ended(c) /\ pre[c].dir \in {"absent", "invalid"} /\ Reached(c)) =>
               (isCloned[c] /\ mirror[Dir(c)] = "valid")

C5_CloneOnce ==
    [][/\ C5_State'
       /\ \A c \in Ctx : pc[c] \in HoldPcs =>
             /\ \A d \in Dirs \ {Dir(c)} : mirror'[d] = mirror[d] /\ cur'[d] = cur[d]
             /\ (pre[c].dir = "valid" /\ br[c] = cur[Dir(c)]) =>
                    cur'[Dir(c)] = cur[Dir(c)]]_vars

C5_Witness ==
    \E c \in Ctx :
        /\ pc[c] = "ready"
        /\ pre[c].dir = "valid"
        /\ ~isCloned[c]
        /\ br[c] = "dev"
        /\ cur[Dir(c)] = "dev"

\* C6 as claimed: after a failed clone neither the mirror directory nor any
\* directory the call created under the root remains, and is_cloned is unset.
C6_NoDirectoryLeft ==
    \A c \in Ctx :
        exc[c].kind = "RepositoryUnavailable" =>
            /\ mirror[Dir(c)] = "absent"
            /\ ~pre[c].ns => ~nsDir
            /\ ~isCloned[c]

\* C6 as amended: a failed clone ends as RepositoryUnavailable with the mirror
\* directory removed and is_cloned unset; the namespace directory that
\* os.makedirs created above it stays.
C6_State ==
    \A c \in Ctx :
        exc[c].kind = "RepositoryUnavailable" =>
            /\ mirror[Dir(c)] = "absent"
            /\ nsDir
            /\ ~isCloned[c]

C6_MirrorDirectoryRemoved ==
    [][/\ C6_State'
       /\ \A c \in Ctx :
             (pc[c] = "clone" /\ pc'[c] # "clone" /\ pc'[c] # "branch") =>
                 exc'[c].kind = "RepositoryUnavailable"]_vars

C6_Witness ==
    \E c \in Ctx :
        /\ pc[c] = "failed"
        /\ exc[c].kind = "RepositoryUnavailable"
        /\ ~pre[c].ns
        /\ nsDir
        /\ mirror[Dir(c)] = "absent"

\* C7: a construction with branch B whose remote is reached either returns,
\* the mirror on B when the lock is released (checked out and refreshed again
\* only when B was not the current branch), or fails BranchCheckoutFailed with
\* the checked-out branch as it was.
C7_BranchOutcomes ==
    [][\A c \in Ctx :
          /\ (pc[c] \in {"exit", "remove"} /\ pc'[c] = "ready") =>
                 cur'[Dir(c)] = br[c]
          /\ (pc[c] = "branch" /\ pc'[c] = "update2") =>
                 (br[c] # cur[Dir(c)] /\ cur'[Dir(c)] = br[c])
          /\ (pc[c] = "branch" /\ pc'[c] = "exit" /\ exc'[c] = NoExc) =>
                 (br[c] = cur[Dir(c)] /\ cur'[Dir(c)] = br[c])
          /\ (pc[c] \in HoldPcs /\ pc'[c] = "failed" /\ \A x \in Ctx : Reached(x)) =>
                 /\ exc[c] = [kind |-> "BranchCheckoutFailed", cause |-> "nobranch"]
                 /\ br[c] # cur'[Dir(c)]
          /\ (pc[c] = "branch" /\ exc'[c].kind = "BranchCheckoutFailed") =>
                 cur' = cur]_vars

\* The path get_tree descends with, and the record of the root's own files.
Segs == Normalise(path)
Returned == out.called /\ out.err = "none"
NoDirectoryMatches ==
    /\ Len(Segs) >= 2
    /\ \A i \in 1..Len(tree.trees) : Lower(tree.trees[i].name) # Lower(Segs[2])
RootOnly == IF tree.blobs # <<>> THEN FilesDict(tree.blobs) ELSE EmptyDict

\* C8 as claimed: get_tree called with a path whose first segment is the name
\* of no top-level directory of the branch raises no error and returns an
\* empty structure, one with no files records and no directory entries.
C8_EmptyStructure ==
    (out.called /\ RefKnown(BranchOr(branch, DEFAULT_GIT_BRANCH)) /\ NoDirectoryMatches) =>
        /\ out.err = "none"
        /\ out.result \in {EmptyDict, Dict("" :> EmptyDict)}

\* C8 as amended: such a call raises no error and returns the structure with
\* the single key of the root segment, holding the files records of the
\* root's own files when it has any, and no directory entry.
C8_OnlyRootSurvives ==
    (out.called /\ RefKnown(BranchOr(branch, DEFAULT_GIT_BRANCH)) /\ NoDirectoryMatches) =>
        /\ out.err = "none"
        /\ out.result = Dict("" :> RootOnly)

C8_Witness ==
    /\ Returned
    /\ tree = TreePlain
    /\ path = [form |-> "str", segs |-> <<"zz">>]
    /\ out.result = Dict("" :> FilesDict(<<"main.py", "README">>))

\* The entry of a surviving directory: a dict whose files entry is the list
\* of one record per file, and which holds every surviving child directory,
\* itself such an entry, under the child's name.
RECURSIVE Materialized(_, _, _, _)
Materialized(v, t, p, idx) ==
    /\ v.kind = "dict"
    /\ t.blobs # <<>> =>
          /\ "files" \in Keys(v)
          /\ v.items["files"] = List([i \in 1..Len(t.blobs) |-> [filename |-> t.blobs[i]]])
    /\ \A i \in 1..Len(t.trees) :
          ~Pruned(t.trees[i], p, idx + 1) =>
              /\ t.trees[i].name \in Keys(v)
              /\ Materialized(v.items[t.trees[i].name], t.trees[i], p, idx + 1)

\* C9: whatever the names in the tree, the structure get_tree returns has,
\* for every surviving directory with files, a files entry that is the list
\* of one record per file, and every surviving child directory as a sibling
\* key of it.
C9_FilesPerDirectory ==
    Returned =>
        /\ "" \in Keys(out.result)
        /\ Materialized(out.result.items[""], tree, Segs, 0)

\* C10: get_tree with a branch that is not among the remote references fails
\* with IndexError (answered 400 "Branch ... does not exist") before
\* _get_tree is entered, returns no structure and leaves the mirror alone.
C10_UnknownBranch ==
    [][(out'.called /\ ~out.called /\ branch \notin RemoteBranches \cup {""}) =>
          /\ out'.err = "IndexError"
          /\ ~out'.traversed
          /\ out'.result = NoResult
          /\ TreeResponse(out') = [status |-> "400", detail |-> "Branch does not exist"]
          /\ mirror' = mirror /\ cur' = cur /\ nsDir' = nsDir]_vars

C10_Witness ==
    /\ out.called
    /\ branch = "nope"
    /\ tree = TreePlain
    /\ path = PathNone
    /\ out.err = "IndexError"

\* C13: a fetch, pull or clone that fails on the network during the
\* construction is reported as RepositoryUnavailable or BranchCheckoutFailed,
\* never as another kind of failure.
C13_NetworkFailureKinds ==
    \A c \in Ctx :
        exc[c].cause = "network" =>
            exc[c].kind \in {"RepositoryUnavailable", "BranchCheckoutFailed"}

Waiting(c) == pc[c] \in {"wait", "sleep"}

\* C17: a context waiting on the marker of a holder that crashed leaves
\* wait_for_unlock once the clock has passed the marker's expiry, and the
\* stale marker is gone when it does.
C17_SelfHealing ==
    \A c \in Ctx :
        (Waiting(c) /\ marker.owner = CrashedHolder)
            ~> (pc[c] = "lock" /\ marker = NoMarker)

C17_Witness ==
    \E c \in Ctx :
        /\ pc[c] = "sleep"
        /\ marker.owner = CrashedHolder
        /\ marker.expiry < now

\* C19: the unlock of __exit__ never removes a marker that another context
\* wrote.
C19_ReleaseOnlyOwnMarker ==
    [][\A c \in Ctx :
          (pc[c] \in {"exit", "remove"} /\ pc'[c] # pc[c] /\ marker.owner \in Ctx \ {c}) =>
              marker' = marker]_vars

\* C20: what a request for branch B reads after its construction, it reads
\* from a working copy that is checked out at B.
C20_ReadsRequestedBranch ==
    \A c \in Ctx :
        pc[c] = "read" => (mirror[Dir(c)] = "valid" /\ cur[Dir(c)] = br[c])

\* Whether the dict v holds an entry that the directory t put there.
HasEntry(v, t) ==
    /\ v.kind = "dict"
    /\ t.name \in Keys(v)
    /\ v.items[t.name].kind = "dict"

\* Within the dict v of its parent: a directory whose name differs from the
\* path segment of its depth has no entry, any other one has an entry, and
\* the same holds for its sub-directories within that entry.
RECURSIVE KeptOrPruned(_, _, _, _)
KeptOrPruned(v, t, p, idx) ==
    IF idx < Len(p) /\ Lower(t.name) # Lower(p[idx + 1])
    THEN ~HasEntry(v, t)
    ELSE /\ HasEntry(v, t)
         /\ \A i \in 1..Len(t.trees) :
               KeptOrPruned(v.items[t.name], t.trees[i], p, idx + 1)

\* C15: get_tree on an existing branch returns a structure in which a
\* directory visited within the path and named differently (up to case) has
\* no key, nor have its descendants, and every directory visited beyond the
\* path under a surviving parent is included with all its descendants.
C15_Pruning ==
    (out.called /\ out.err # "IndexError") =>
        /\ out.err = "none"
        /\ KeptOrPruned(out.result, tree, Segs, 0)

\* '/'.join(s)
RECURSIVE Join(_)
Join(s) ==
    IF Len(s) <= 1 THEN s ELSE <<Head(s), "/">> \o Join(Tail(s))

\* The path argument is a list of directory names (none of them empty).
ListOfNames == path.form = "list" /\ \A i \in 1..Len(path.segs) : path.segs[i] # ""
GetTreeWith(pa) == GetTree(branch, pa, tree, DEFAULT_GIT_BRANCH)

\* C16: for a list s of names, get_tree gives the same for s, for the string
\* that joins s with "/", and for s behind the empty root segment; an absent
\* path gives the same as the list of the root segment alone; and the result
\* has no top-level key but the root segment.
C16_PathForms ==
    out.called =>
        /\ ListOfNames =>
              /\ out = GetTreeWith([form |-> "str", segs |-> Join(path.segs)])
              /\ out = GetTreeWith([form |-> "list", segs |-> <<"">> \o path.segs])
        /\ path = PathNone => out = GetTreeWith([form |-> "list", segs |-> <<"">>])
        /\ out.err = "none" => Keys(out.result) \subseteq {""}

\* C14: cp_add_blob_content applied to a record it has already been applied
\* to leaves the content field as the first application set it, whether the
\* blob decodes or not, and leaves the filename alone.
C14_AddContentIdempotent ==
    [][(applied # <<>> /\ applied[Len(applied)] = "cp_add_blob_content"
          /\ applied' = Append(applied, "cp_add_blob_content")) =>
             /\ record'.content = record.content
             /\ record'.filename = record.filename
             /\ record'.err = "none"]_vars

C14_Witness ==
    /\ applied = <<"cp_add_blob_content", "cp_add_blob_content">>
    /\ blob = <<255>>
    /\ record.content = Str(<<98, 39, 92, 120, 102, 102, 39>>)

\* C18: cp_encode_blob_base64 on a record without content leaves the same
\* content as cp_add_blob_content followed by cp_encode_blob_base64: the
\* base64 encoding of the decoded text, in place of the text.
C18_Base64Composes ==
    (applied \in {<<"cp_encode_blob_base64">>,
                  <<"cp_add_blob_content", "cp_encode_blob_base64">>}) =>
        /\ record.err = "none"
        /\ record.content = Bytes(b64encode(Utf8Encode(Decoded(blob))))

C18_Witness ==
    /\ applied = <<"cp_encode_blob_base64">>
    /\ blob = <<65>>
    /\ record.content = Bytes(<<81, 81, 61, 61>>)

\* The lines of a phrase, and the items of a list of checks in the order of
\* their evaluation: <<i, 0, 0>> is the file of the i-th check, <<i, j, k>>
\* the k-th line of its j-th phrase.
LinesOf(phrase) == SplitLines(Strip(phrase.content))
FileFound(chk) == Resolve(MirrorRoot \o chk.filename.segs) \in DOMAIN FileContents
LineItems(cs) ==
    UNION {UNION {{<<i, j, k>> : k \in 1..Len(LinesOf(cs[i].phrases[j]))} :
                  j \in 1..Len(cs[i].phrases)} :
           i \in 1..Len(cs)}
Items(cs) == {<<i, 0, 0>> : i \in 1..Len(cs)} \cup LineItems(cs)
Before(p, q) ==
    \/ p[1] < q[1]
    \/ p[1] = q[1] /\ p[2] < q[2]
    \/ p[1] = q[1] /\ p[2] = q[2] /\ p[3] < q[3]
ItemFails(cs, it) ==
    IF it[2] = 0 THEN ~FileFound(cs[it[1]])
    ELSE /\ FileFound(cs[it[1]])
         /\ ~Contains(FileContents[Resolve(MirrorRoot \o cs[it[1]].filename.segs)],
                      Strip(LinesOf(cs[it[1]].phrases[it[2]])[it[3]]))
Failing(cs) == {it \in Items(cs) : ItemFails(cs, it) /\ \A q \in Items(cs) : Before(q, it) => ~ItemFails(cs, q)}
\* The call went as the claim says: no error when no item fails, else the
\* error of the first failing item, and no item after it evaluated.
AsChecksDecide(cs, r) ==
    IF Failing(cs) = {}
    THEN /\ r.err = "none"
         /\ r.tests = Cardinality(LineItems(cs))
         /\ r.reads = Len(cs)
    ELSE /\ r.at \in Failing(cs)
         /\ r.err = (IF r.at[2] = 0 THEN "FileNotFound" ELSE "ContentMismatch")
         /\ r.tests = Cardinality({q \in LineItems(cs) : q = r.at \/ Before(q, r.at)})
         /\ r.reads = r.at[1]

\* C11 as claimed: files_contains raises nothing exactly when every file
\* exists and holds every trimmed line of every phrase; otherwise it raises
\* the error of the first failing item and evaluates nothing after it.
C11_ChecksDecide ==
    (call.op = "files_contains" /\ ret.done) => AsChecksDecide(call.checks, ret.r)

\* C11 as amended: files_contains refreshes first; when the refresh fails it
\* raises that error with no check evaluated, and otherwise goes as claimed.
C11_RefreshThenChecks ==
    (call.op = "files_contains" /\ ret.done) =>
        IF ret.r.err = "GitCommandError"
        THEN ret.r.tests = 0 /\ ret.r.reads = 0
        ELSE AsChecksDecide(call.checks, ret.r)

C11_Witness ==
    /\ call.op = "files_contains"
    /\ ret.done
    /\ Len(call.checks) = 2
    /\ ret.r.err = "ContentMismatch"
    /\ ret.r.at = <<1, 1, 1>>
    /\ ret.r.tests = 1
    /\ Len(call.checks[1].phrases) = 2

C21_OwnMirrorOnly ==
    (made # NoHandler /\ made.err = "none") => made.origin = made.url

\* Whether the file a path names lies below a directory.
IsUnder(dir, p) == Len(p) > Len(dir) /\ SubSeq(p, 1, Len(dir)) = dir

\* C22: whatever the filename, absolute or with ".." segments, get_file
\* either fails with FileNotFound or returns the content of a file that lies
\* below the mirror's directory.
C22_InsideMirror ==
    (call.op = "get_file" /\ ret.done) =>
        \/ ret.r.err = "FileNotFound"
        \/ IsUnder(MirrorRoot, Resolve(OsPathJoin(MirrorRoot, call.filename)))

====
